---------------------------- MODULE Spec2Model ----------------------------
(***************************************************************************)
(* Lights Out (lights_out.py): the GF(2) solver (create_vector_            *)
(* representations, create_augmented_matrix, gauss_jordan_elimination,     *)
(* is_solvable, get_solution), the verifier (check_solution) and the       *)
(* per-connection loop LightsOutHandler.handle.                            *)
(*                                                                         *)
(* Python lists are 0-based, TLA+ sequences 1-based: the element at Python *)
(* index i is the element at index i + 1 here.  Comments give the Python   *)
(* index where it helps.  The state variables carry the names of handle's  *)
(* locals, so the parameters n, board, solution, matrix, user_input and    *)
(* user_solution of the functions are written nn, bd, sol, mx, text, bits. *)
(***************************************************************************)
EXTENDS Integers, Sequences, FiniteSets, TLC

(***************************************************************************)
(* Bounds of the model.                                                    *)
(***************************************************************************)
\* Board edge lengths 1..MaxN stand for random.randint(15, 25) in SpecSolve,
\* 1..MaxSessionN in the session (Spec) and in SpecReduce.
MaxN == 5
MaxSessionN == 4
\* generate_random_board draws every cell at random; the model draws the
\* first MaxRandomCells cells (Python index < MaxRandomCells) and leaves the
\* others off.
MaxRandomCells == 8
\* Exhaustive search over toggle sequences is done for boards of at most
\* SearchCells cells.
SearchCells == 16
\* The session ends after MaxRounds presented boards.
MaxRounds == 2
\* Every reply of at most MaxReply bytes over "#", "." and " " is received.
MaxReply == 2
\* gauss_jordan_elimination is applied to every 0/1 matrix of at most
\* MaxRows rows and MaxCols columns, at most MaxPasses times in a row.
MaxRows == 3
MaxCols == 3
MaxPasses == 2

\* Python's None, and a local variable that is not bound yet: two tuples that
\* are no list of bits (TLC compares tuples with tuples only).
None == <<-1>>
Unbound == <<>>

Xor(a, b) == (a + b) % 2

\* A Python list built by a comprehension: the function, as a tuple.
List(f) == SubSeq(f, 1, Len(f))

(***************************************************************************)
(* create_vector_representations(n): vectors[i] is the effect of toggling  *)
(* cell i: itself and its in-bounds left, right, up and down neighbours.   *)
(***************************************************************************)
\* create_vector_representations with the left neighbour set without the edge
\* test "i % n != 0"
VectorBit_NoLeftEdge(i, k, nn) ==
    \/ k = i
    \/ k = i - 1
    \/ (i % nn # nn - 1 /\ k = i + 1)
    \/ (i >= nn /\ k = i - nn)
    \/ (i < nn * (nn - 1) /\ k = i + nn)

VectorBit(i, k, nn) ==
    \* i, k are Python indices 0..n*n-1: vector[k] = 1 in the vector of cell i
    \/ k = i
    \/ (i % nn # 0 /\ k = i - 1)
    \/ (i % nn # nn - 1 /\ k = i + 1)
    \/ (i >= nn /\ k = i - nn)
    \/ (i < nn * (nn - 1) /\ k = i + nn)

create_vector_representations(nn) ==
    List([i \in 1..(nn * nn) |->
        List([k \in 1..(nn * nn) |->
                IF VectorBit(i - 1, k - 1, nn) THEN 1 ELSE 0])])

create_augmented_matrix(vectors, bd) ==
    List([i \in 1..Len(vectors) |-> Append(vectors[i], bd[i])])

(***************************************************************************)
(* gauss_jordan_elimination(matrix).  GJLoop is the loop over the columns  *)
(* c (Python c = 0..cols-2) with the pivot cursor r; the record also       *)
(* counts the row swaps and the row XORs performed.                        *)
(***************************************************************************)
\* the pivot search started at row 0 instead of the cursor r
FindPivot_FromTop(m, i, rows, c) ==
    LET hits == {k \in 1..rows : m[k][c] = 1}
    IN  IF hits = {} THEN 0 ELSE CHOOSE k \in hits : \A h \in hits : k <= h

RECURSIVE FindPivot(_, _, _, _)
FindPivot(m, i, rows, c) ==
    \* for i in range(r, rows): if matrix[i][c] == 1: pivot = i; break
    IF i > rows THEN 0
    ELSE IF m[i][c] = 1 THEN i
    ELSE FindPivot(m, i + 1, rows, c)

\* the swap of line 109 left out
SwapRows_None(m, r, pivot) == m

SwapRows(m, r, pivot) ==
    IF r # pivot
    THEN List([i \in 1..Len(m) |-> IF i = r THEN m[pivot]
                                   ELSE IF i = pivot THEN m[r] ELSE m[i]])
    ELSE m

Eliminate(m, r, c) ==
    List([i \in 1..Len(m) |->
            IF i # r /\ m[i][c] = 1
            THEN List([j \in 1..Len(m[i]) |-> Xor(m[i][j], m[r][j])])
            ELSE m[i]])

RECURSIVE GJLoop(_, _)
GJLoop(st, c) ==
    LET rows == Len(st.m)
        cols == Len(st.m[1])
    IN  IF c > cols - 1 \/ st.r > rows THEN st
        ELSE LET pivot == FindPivot(st.m, st.r, rows, c)
             IN  IF pivot = 0 THEN GJLoop(st, c + 1)
                 ELSE LET sw == SwapRows(st.m, st.r, pivot)
                          nx == Cardinality({i \in 1..rows :
                                               i # st.r /\ sw[i][c] = 1})
                      IN  GJLoop([m |-> Eliminate(sw, st.r, c),
                                  r |-> st.r + 1,
                                  swaps |-> st.swaps +
                                            (IF st.r # pivot THEN 1 ELSE 0),
                                  xors |-> st.xors + nx],
                                 c + 1)

GJRun(mx) == GJLoop([m |-> mx, r |-> 1, swaps |-> 0, xors |-> 0], 1)

gauss_jordan_elimination(mx) == GJRun(mx).m

(***************************************************************************)
(* is_solvable(matrix): reduces the matrix IN PLACE and looks for a row    *)
(* 0 ... 0 | 1.  .reduced is the argument as the call leaves it.           *)
(***************************************************************************)
\* is_solvable that refuses every row of zero coefficients, whatever its
\* augmented entry
is_solvable_FullRank(mx) ==
    LET rref == GJRun(mx).m
        cols == Len(rref[1])
    IN  [ok |-> \A i \in 1..Len(rref) :
                    \E j \in 1..(cols - 1) : rref[i][j] = 1,
         reduced |-> rref]

is_solvable(mx) ==
    LET rref == gauss_jordan_elimination(mx)
        cols == Len(rref[1])
    IN  [ok |-> \A i \in 1..Len(rref) :
                    ~(rref[i][cols] = 1 /\
                      \A j \in 1..(cols - 1) : rref[i][j] = 0),
         reduced |-> rref]

\* get_solution(board, n): .returns is the value returned, .mx the local list
\* "matrix" when the function returns (is_solvable and the second
\* gauss_jordan_elimination both work on it in place).
GetSolution(bd, nn) ==
    LET vectors == create_vector_representations(nn)
        mx == create_augmented_matrix(vectors, bd)
        chk == is_solvable(mx)
    IN  IF ~chk.ok THEN [returns |-> None, mx |-> chk.reduced]
        ELSE LET rref_matrix == gauss_jordan_elimination(chk.reduced)
             IN  [returns |-> List([i \in 1..(nn * nn) |->
                                      rref_matrix[i][nn * nn + 1]]),
                  mx |-> rref_matrix]

get_solution(bd, nn) == GetSolution(bd, nn).returns

(***************************************************************************)
(* check_solution(board, solution, n).                                     *)
(***************************************************************************)
Flips(i, k, nn) ==
    \* the body of "if solution[i] == 1": is board[k] flipped ?  (Python i, k)
    \/ k = i
    \/ (i % nn # 0 /\ k = i - 1)
    \/ (i % nn # nn - 1 /\ k = i + 1)
    \/ (i >= nn /\ k = i - nn)
    \/ (i < nn * (nn - 1) /\ k = i + nn)

Toggle(bd, i, nn) ==
    List([k \in 1..Len(bd) |->
            IF Flips(i, k - 1, nn) THEN Xor(bd[k], 1) ELSE bd[k]])

RECURSIVE ApplyToggles(_, _, _, _)
ApplyToggles(bd, sol, nn, i) ==
    \* the loop "for i in range(n * n)", from Python index i on
    IF i >= nn * nn THEN bd
    ELSE IF sol[i + 1] = 1
         THEN ApplyToggles(Toggle(bd, i, nn), sol, nn, i + 1)
         ELSE ApplyToggles(bd, sol, nn, i + 1)

check_solution(bd, sol, nn) ==
    LET after == ApplyToggles(bd, sol, nn, 0)
    IN  \A k \in 1..Len(after) : after[k] = 0

(***************************************************************************)
(* print_board(board, n): n lines of n glyphs, each ended by "\n".         *)
(***************************************************************************)
RECURSIVE PrintRow(_, _, _, _)
PrintRow(bd, nn, i, j) ==
    \* the inner loop "for j in range(n)" of row i, from j on
    IF j >= nn THEN <<>>
    ELSE <<(IF bd[i * nn + j + 1] # 0 THEN "#" ELSE ".")>>
         \o PrintRow(bd, nn, i, j + 1)

RECURSIVE PrintRows(_, _, _)
PrintRows(bd, nn, i) ==
    IF i >= nn THEN <<>>
    ELSE PrintRow(bd, nn, i, 0) \o <<"\\n">> \o PrintRows(bd, nn, i + 1)

print_board(bd, nn) == PrintRows(bd, nn, 0)

(***************************************************************************)
(* The reply, as handle reads it:                                          *)
(*   user_input = recv(1024).strip().decode("utf-8")                       *)
(*   user_solution = [1 if c == "#" else 0 for c in user_input]            *)
(* A reply is a tuple of bytes, written as in a Python bytes literal: "#", *)
(* "\\n" (newline), "\\xc3".  The ASCII bytes stand for themselves;        *)
(* LeadByte ContByte is the two-byte UTF-8 encoding of the one character   *)
(* TwoByteChar; BadByte occurs in no UTF-8 text.                           *)
(***************************************************************************)
LeadByte == "\\xc3"
ContByte == "\\xa9"
BadByte == "\\xff"
TwoByteChar == "U+00E9"
\* bytes.strip() removes these from both ends
Whitespace == {" ", "\\t", "\\n", "\\v", "\\f", "\\r"}

\* recv has returned nothing (yet): no tuple of bytes
NoReply == <<"no reply">>

RECURSIVE LStrip(_)
LStrip(bytes) ==
    IF bytes # <<>> /\ Head(bytes) \in Whitespace THEN LStrip(Tail(bytes))
    ELSE bytes

RECURSIVE RStrip(_)
RStrip(bytes) ==
    IF bytes # <<>> /\ bytes[Len(bytes)] \in Whitespace
    THEN RStrip(SubSeq(bytes, 1, Len(bytes) - 1))
    ELSE bytes

strip(bytes) == RStrip(LStrip(bytes))

\* decode("utf-8") raises UnicodeDecodeError on bytes that are no UTF-8.
RECURSIVE DecodeRaises(_)
DecodeRaises(bytes) ==
    IF bytes = <<>> THEN FALSE
    ELSE IF Head(bytes) = LeadByte
         THEN IF Len(bytes) >= 2 /\ bytes[2] = ContByte
              THEN DecodeRaises(SubSeq(bytes, 3, Len(bytes)))
              ELSE TRUE
    ELSE IF Head(bytes) \in {ContByte, BadByte} THEN TRUE
    ELSE DecodeRaises(Tail(bytes))

RECURSIVE decode(_)
decode(bytes) ==
    IF bytes = <<>> THEN <<>>
    ELSE IF Head(bytes) = LeadByte
         THEN <<TwoByteChar>> \o decode(SubSeq(bytes, 3, Len(bytes)))
         ELSE <<Head(bytes)>> \o decode(Tail(bytes))

\* the parse with "." for 0 and any other character for 1
ParseSolution_DotIsZero(text) ==
    List([k \in 1..Len(text) |-> IF text[k] = "." THEN 0 ELSE 1])

ParseSolution(text) ==
    List([k \in 1..Len(text) |-> IF text[k] = "#" THEN 1 ELSE 0])

\* the length test as ">=", and left out
LengthMatches_AtLeast(bits, nn) == Len(bits) >= nn * nn
LengthMatches_Always(bits, nn) == TRUE

\* len(user_solution) == n * n, the left operand of "and" at line 240
LengthMatches(bits, nn) == Len(bits) = nn * nn

\* check_solution(board[:], user_solution, n) reads user_solution[i] for every
\* i < n * n: IndexError on a shorter list.
CheckRaises(bits, nn) == Len(bits) < nn * nn

(***************************************************************************)
(* generate_random_board(n), within the bound MaxRandomCells.              *)
(***************************************************************************)
Min(a, b) == IF a < b THEN a ELSE b

generate_random_board(nn) ==
    {List([k \in 1..(nn * nn) |-> IF k <= Len(p) THEN p[k] ELSE 0]) :
        p \in {List(f) : f \in [1..Min(nn * nn, MaxRandomCells) -> {0, 1}]}}

\* One pass of lines 222-224: n, board and get_solution(board, n), for every
\* size and board of the session.
GeneratedRounds ==
    UNION {{<<nn, b, get_solution(b, nn)>> : b \in generate_random_board(nn)} :
            nn \in 1..MaxSessionN}

(***************************************************************************)
(* The replies a client sends to a presented board.                        *)
(***************************************************************************)
Glyphs(bits) == List([k \in 1..Len(bits) |-> IF bits[k] = 1 THEN "#" ELSE "."])

Replace(s, from, to) ==
    List([k \in 1..Len(s) |-> IF s[k] = from THEN to ELSE s[k]])

FlipFirst(bits) == List([k \in 1..Len(bits) |->
                            IF k = 1 THEN 1 - bits[k] ELSE bits[k]])

RECURSIVE ShortReplies(_)
ShortReplies(k) ==
    IF k = 0 THEN {<<>>}
    ELSE LET prev == ShortReplies(k - 1)
         IN  prev \cup {Append(r, c) : r \in prev, c \in {"#", ".", " "}}

Replies(nn, bd, sol) ==
    LET S == Glyphs(sol)
    IN  {S,
         S \o <<"\\n">>,
         <<" ">> \o S \o <<"\\r", "\\n">>,
         Replace(S, ".", "x"),
         Replace(S, ".", " "),
         Replace(S, ".", "\\n"),
         <<LeadByte, ContByte>> \o Tail(Glyphs(FlipFirst(sol))),
         <<LeadByte>> \o Tail(S),
         <<BadByte>> \o Tail(S),
         SubSeq(S, 1, Len(S) - 1),
         S \o <<".">>,
         S \o <<"#">>,
         S \o S,
         Glyphs(FlipFirst(sol)),
         Glyphs(bd),
         Replace(S, "#", "."),
         <<"\\n">>}
        \cup ShortReplies(MaxReply)

Rounds(log) == Cardinality({k \in 1..Len(log) : log[k] = "Board"})

(***************************************************************************)
(* The state.  pc is the position of handle (session), or of the solver    *)
(* run; n, board, solution, user_input, user_solution are the locals of    *)
(* handle; received is the value recv returned; out is the sequence of     *)
(* messages sent, by kind; shown is the board text of the current round;   *)
(* checked tells whether the last reply was passed to check_solution.      *)
(* matrix, passes, ops: the list gauss_jordan_elimination works on in      *)
(* place, the number of reductions done, and the swaps and XORs of the     *)
(* last one.  verdict is the value check_solution returned.                *)
(***************************************************************************)
VARIABLES pc, n, board, solution, received, user_input, user_solution,
          out, shown, checked, matrix, passes, ops, verdict

locals == <<n, board, solution, received, user_input, user_solution>>
solver == <<matrix, passes, ops, verdict>>
vars == <<pc, n, board, solution, received, user_input, user_solution,
          out, shown, checked, matrix, passes, ops, verdict>>

(***************************************************************************)
(* LightsOutHandler.handle.                                                *)
(***************************************************************************)
Init ==
    /\ pc = "Start"
    /\ n = 0
    /\ board = Unbound
    /\ solution = Unbound
    /\ received = NoReply
    /\ user_input = Unbound
    /\ user_solution = Unbound
    /\ out = <<>>
    /\ shown = Unbound
    /\ checked = FALSE
    /\ matrix = <<>>
    /\ passes = 0
    /\ ops = 0
    /\ verdict = FALSE

\* lines 203-219: the banner
Connect ==
    /\ pc = "Start"
    /\ out' = Append(out, "Banner")
    /\ pc' = "AwaitingBoard"
    /\ UNCHANGED <<locals, shown, checked, solver>>

\* The end of a loop iteration ("continue", or the end of the loop body): the
\* locals of the iteration are all assigned again before they are read, so the
\* model forgets them here.
ForgetRound ==
    /\ n' = 0
    /\ board' = Unbound
    /\ received' = NoReply
    /\ user_input' = Unbound
    /\ user_solution' = Unbound
    /\ shown' = Unbound

\* lines 222-226: a board with no solution; "continue"
DiscardBoard ==
    /\ pc = "AwaitingBoard"
    /\ Rounds(out) < MaxRounds
    /\ \E t \in GeneratedRounds :
        /\ t[3] = None
        /\ solution' = t[3]
    /\ ForgetRound
    /\ UNCHANGED <<pc, out, checked, solver>>

\* the test "solution is None" of line 225 left out
PresentBoard_Any ==
    /\ pc = "AwaitingBoard"
    /\ Rounds(out) < MaxRounds
    /\ \E t \in GeneratedRounds :
        /\ n' = t[1]
        /\ board' = t[2]
        /\ solution' = t[3]
        /\ shown' = print_board(t[2], t[1])
    /\ out' = out \o <<"BoardHeader", "Board", "Prompt">>
    /\ pc' = "AwaitingInput"
    /\ UNCHANGED <<received, user_input, user_solution, checked, solver>>

\* lines 222-230: a board with a solution is sent, then the prompt
PresentBoard ==
    /\ pc = "AwaitingBoard"
    /\ Rounds(out) < MaxRounds
    /\ \E t \in GeneratedRounds :
        /\ t[3] # None
        /\ n' = t[1]
        /\ board' = t[2]
        /\ solution' = t[3]
        /\ shown' = print_board(t[2], t[1])
    /\ out' = out \o <<"BoardHeader", "Board", "Prompt">>
    /\ pc' = "AwaitingInput"
    /\ UNCHANGED <<received, user_input, user_solution, checked, solver>>

\* socket.timeout not caught: it leaves handle
RecvTimeout_Fatal ==
    /\ pc = "AwaitingInput"
    /\ pc' = "Crashed"
    /\ UNCHANGED <<locals, out, shown, checked, solver>>

\* lines 234-237: socket.timeout
RecvTimeout ==
    /\ pc = "AwaitingInput"
    /\ out' = Append(out, "Timeout")
    /\ pc' = "AwaitingBoard"
    /\ ForgetRound
    /\ solution' = Unbound
    /\ UNCHANGED <<checked, solver>>

\* line 232: recv returns the client's reply
RecvReply ==
    /\ pc = "AwaitingInput"
    /\ \E r \in Replies(n, board, solution) : received' = r
    /\ pc' = "Verifying"
    /\ UNCHANGED <<n, board, solution, user_input, user_solution,
                   out, shown, checked, solver>>

Incorrect ==
    \* lines 245-246, and the next iteration
    /\ out' = Append(out, "Incorrect")
    /\ pc' = "AwaitingBoard"
    /\ ForgetRound
    /\ solution' = Unbound

\* the flag sent without the "break"
Success_NoBreak ==
    /\ out' = Append(out, "Success")
    /\ pc' = "AwaitingBoard"

Success ==
    \* lines 242-244: the flag, then "break": handle returns
    /\ out' = Append(out, "Success")
    /\ pc' = "Success"

\* lines 232-246: strip, decode, parse, verify, answer
Verify ==
    /\ pc = "Verifying"
    /\ LET bytes == strip(received)
       IN  IF DecodeRaises(bytes)
           THEN \* UnicodeDecodeError leaves handle
                /\ pc' = "Crashed"
                /\ UNCHANGED <<locals, out, shown, checked>>
           ELSE LET ui == decode(bytes)
                    us == ParseSolution(ui)
                IN  IF LengthMatches(us, n)
                    THEN /\ checked' = TRUE
                         /\ IF CheckRaises(us, n)
                            THEN \* IndexError leaves handle
                                 /\ pc' = "Crashed"
                                 /\ user_input' = ui
                                 /\ user_solution' = us
                                 /\ UNCHANGED <<n, board, solution, received,
                                                out, shown>>
                            ELSE IF check_solution(board, us, n)
                                 THEN /\ Success
                                      /\ user_input' = ui
                                      /\ user_solution' = us
                                      /\ UNCHANGED <<n, board, solution,
                                                     received, shown>>
                                 ELSE Incorrect
                    ELSE /\ checked' = FALSE
                         /\ Incorrect
    /\ UNCHANGED solver

Next ==
    \/ Connect
    \/ DiscardBoard
    \/ PresentBoard
    \/ RecvTimeout
    \/ RecvReply
    \/ Verify

Spec == Init /\ [][Next]_vars

(***************************************************************************)
(* The solver alone: get_solution, then check_solution on a copy of the    *)
(* board, for every board size 1..MaxN and every board drawn.              *)
(***************************************************************************)
InitSolve ==
    /\ pc = "solve"
    /\ n \in 1..MaxN
    /\ board \in generate_random_board(n)
    /\ solution = Unbound
    /\ received = NoReply
    /\ user_input = Unbound
    /\ user_solution = Unbound
    /\ out = <<>>
    /\ shown = Unbound
    /\ checked = FALSE
    /\ matrix = <<>>
    /\ passes = 0
    /\ ops = 0
    /\ verdict = FALSE

\* solution = get_solution(board, n)
SolveBoard ==
    /\ pc = "solve"
    /\ LET run == GetSolution(board, n)
       IN  /\ solution' = run.returns
           /\ matrix' = run.mx
    /\ pc' = IF solution' = None THEN "unsolvable" ELSE "check"
    /\ UNCHANGED <<n, board, received, user_input, user_solution,
                   out, shown, checked, passes, ops, verdict>>

\* check_solution(board[:], solution, n)
CheckBoard ==
    /\ pc = "check"
    /\ verdict' = check_solution(board, solution, n)
    /\ checked' = TRUE
    /\ pc' = "checked"
    /\ UNCHANGED <<locals, out, shown, matrix, passes, ops>>

NextSolve == SolveBoard \/ CheckBoard

SpecSolve == InitSolve /\ [][NextSolve]_vars

(***************************************************************************)
(* gauss_jordan_elimination alone, applied repeatedly to the same list:    *)
(* every 0/1 matrix within MaxRows x MaxCols, and the augmented matrix of  *)
(* every board drawn of edge length <= MaxSessionN.                        *)
(***************************************************************************)
BitRows(cols) == {List(f) : f \in [1..cols -> {0, 1}]}

MatricesWithin(maxrows, maxcols) ==
    UNION {{List(f) : f \in [1..rows -> BitRows(cols)]} :
            rows \in 1..maxrows, cols \in 1..maxcols}

AugmentedMatricesWithin(maxsize) ==
    UNION {{create_augmented_matrix(create_vector_representations(nn), b) :
                b \in generate_random_board(nn)} : nn \in 1..maxsize}

InitReduce ==
    /\ pc = "reduce"
    /\ matrix \in MatricesWithin(MaxRows, MaxCols)
                \cup AugmentedMatricesWithin(MaxSessionN)
    /\ passes = 0
    /\ ops = 0
    /\ n = 0
    /\ board = Unbound
    /\ solution = Unbound
    /\ received = NoReply
    /\ user_input = Unbound
    /\ user_solution = Unbound
    /\ out = <<>>
    /\ shown = Unbound
    /\ checked = FALSE
    /\ verdict = FALSE

\* matrix = gauss_jordan_elimination(matrix)
Reduce ==
    /\ pc = "reduce"
    /\ passes < MaxPasses
    /\ LET run == GJRun(matrix)
       IN  /\ matrix' = run.m
           /\ ops' = run.swaps + run.xors
    /\ passes' = passes + 1
    /\ UNCHANGED <<pc, locals, out, shown, checked, verdict>>

NextReduce == Reduce

SpecReduce == InitReduce /\ [][NextReduce]_vars

(***************************************************************************)
(* Properties of the solver (SpecSolve).                                   *)
(***************************************************************************)
Lit(b) == \E k \in 1..Len(b) : b[k] = 1

\* C1: whenever get_solution(board, n) returns a solution, check_solution on
\* a copy of the board with that solution returns True.
C1_RoundTrip ==
    /\ pc = "check" => solution # None /\ Len(solution) = n * n
    /\ pc = "checked" => verdict = TRUE

\* a 5 x 5 board with lit cells (an underdetermined system) solved and verified
C1_Witness ==
    pc = "checked" /\ n = 5 /\ Lit(board) /\ Lit(solution) /\ verdict

\* The boards that some sequence of toggle bits over the Python indices < i
\* turns all off, starting from the sequences that toggle nothing: toggling a
\* cell twice restores the board and toggles commute, so these are the boards
\* that pressing a subset of the cells < i produces from the all-off board.
RECURSIVE SolvedBy(_, _)
SolvedBy(nn, i) ==
    IF i = 0 THEN {List([k \in 1..(nn * nn) |-> 0])}
    ELSE LET prev == SolvedBy(nn, i - 1)
         IN  prev \cup {Toggle(b, i - 1, nn) : b \in prev}

\* exhaustive search, for every size it is feasible for
ExhaustiveSearch ==
    {<<nn, SolvedBy(nn, nn * nn)>> :
        nn \in {k \in 1..MaxN : k * k <= SearchCells}}

HasSolution(b, nn) == \E t \in ExhaustiveSearch : t[1] = nn /\ b \in t[2]

\* C2: get_solution returns None if and only if no sequence of toggle bits
\* turns the board all off (exhaustive search, boards of <= SearchCells cells).
C2_SolvabilityExact ==
    (pc # "solve" /\ n * n <= SearchCells) =>
        ((solution = None) <=> ~HasSolution(board, n))

\* a 4 x 4 board (rank 12 of 16) reported unsolvable
C2_Witness ==
    pc = "unsolvable" /\ n = 4 /\ Lit(board) /\ ~HasSolution(board, n)

\* Python index of the leading 1 of a row among the coefficient columns, + 1;
\* 0 when the coefficients are all 0
Lead(row) ==
    LET ones == {j \in 1..(Len(row) - 1) : row[j] = 1}
    IN  IF ones = {} THEN 0 ELSE CHOOSE j \in ones : \A k \in ones : j <= k

\* C9: in the reduced augmented matrix of the board (the list get_solution
\* reads the solution from), every pivot row r has its leading 1 in column r,
\* the rows without pivot come after the pivot rows, and the solution gives 0
\* to every free variable.
C9_PivotsOnDiagonal ==
    pc # "solve" =>
        LET rref == matrix
        IN  \A i \in 1..(n * n) :
                /\ Lead(rref[i]) \in {0, i}
                /\ Lead(rref[i]) = 0 =>
                        /\ \A k \in i..(n * n) : Lead(rref[k]) = 0
                        /\ solution # None => solution[i] = 0
                /\ solution # None => solution[i] = rref[i][n * n + 1]

\* a solvable 5 x 5 board: 23 pivots, the last two variables free
C9_Witness ==
    /\ pc = "checked" /\ n = 5 /\ Lit(solution)
    /\ Lead(matrix[23]) = 23 /\ Lead(matrix[24]) = 0 /\ Lead(matrix[25]) = 0

(***************************************************************************)
(* Properties of gauss_jordan_elimination (SpecReduce).                    *)
(***************************************************************************)
\* C10: a second gauss_jordan_elimination of the same matrix swaps no rows,
\* XORs no rows and leaves the matrix as the first one returned it.
C10_ReduceIdempotent ==
    [][(passes >= 1 /\ passes' = passes + 1) =>
            (matrix' = matrix /\ ops' = 0)]_vars

\* the augmented matrix of a 4 x 4 board, reduced twice
C10_Witness ==
    passes = 2 /\ Len(matrix) = 16 /\ ops = 0 /\ \E i \in 1..16 : matrix[i][17] = 1

(***************************************************************************)
(* Properties of the session (Spec).                                       *)
(***************************************************************************)
Last(log) == IF log = <<>> THEN "" ELSE log[Len(log)]

\* the bits of a text, read off character by character
HashBits(chars) == [k \in 1..Len(chars) |-> IF chars[k] = "#" THEN 1 ELSE 0]

\* C3: the success payload is sent only when the reply of the round parsed to
\* exactly n * n bits that check_solution accepts on the board presented in
\* that round, it is the last message, and no step follows it.
C3_SuccessOnlyVerified ==
    /\ [](/\ (\E k \in 1..Len(out) : out[k] = "Success") <=> pc = "Success"
          /\ pc = "Success" =>
                /\ out[Len(out)] = "Success"
                /\ \A k \in 1..(Len(out) - 1) : out[k] # "Success"
                /\ user_solution = HashBits(user_input)
                /\ user_input = decode(strip(received))
                /\ Len(user_solution) = n * n
                /\ shown = print_board(board, n)
                /\ check_solution(board, user_solution, n))
    /\ [][pc # "Success"]_vars

\* success in the second round, on a 4 x 4 board with lit cells
C3_Witness ==
    pc = "Success" /\ Rounds(out) = 2 /\ n = 4 /\ Lit(board)

\* C4: when the read expires with no reply received, the session sends the
\* timeout notice and nothing else, and is back at the top of the loop, where
\* a new size and board are generated.
C4_TimeoutIsNormal ==
    /\ [][(pc = "AwaitingInput" /\ received' = NoReply) =>
            (/\ out' = Append(out, "Timeout")
             /\ pc' = "AwaitingBoard"
             /\ board' = Unbound /\ n' = 0)]_vars
    /\ [](Last(out) = "Timeout" => pc = "AwaitingBoard")
    /\ [][(Last(out) = "Timeout" /\ out' # out) =>
            (/\ out' = out \o <<"BoardHeader", "Board", "Prompt">>
             /\ <<n', board', solution'>> \in GeneratedRounds)]_vars

\* a board presented after a timeout
C4_Witness ==
    \E k \in 1..Len(out) : out[k] = "Timeout" /\ k < Len(out)

\* C5: a reply whose parsed length is not n * n gets the incorrect-solution
\* notice, is not passed to check_solution, raises nothing, and a new round
\* follows.
C5_WrongLengthIsIncorrect ==
    [][(/\ pc = "Verifying"
        /\ ~DecodeRaises(strip(received))
        /\ Len(decode(strip(received))) # n * n) =>
            (/\ out' = Append(out, "Incorrect")
             /\ pc' = "AwaitingBoard"
             /\ ~checked')]_vars

\* a wrong-length reply answered, and the next board presented
C5_Witness ==
    /\ ~checked /\ pc = "AwaitingInput"
    /\ \E k \in 1..Len(out) : out[k] = "Incorrect"

\* C6: a board that has been sent is one get_solution returned a solution
\* for; a board with no solution is dropped with nothing sent, at the top of
\* the loop.
C6_PresentedBoardsSolvable ==
    /\ [](shown # Unbound =>
            /\ shown = print_board(board, n)
            /\ solution # None
            /\ <<n, board, solution>> \in GeneratedRounds)
    /\ [](Rounds(out) > 0 /\ Last(out) = "Prompt" => shown # Unbound)
    /\ [][solution' = None =>
            (out' = out /\ pc' = "AwaitingBoard" /\ shown' = Unbound)]_vars

\* a 4 x 4 board with lit cells has been sent (most 4 x 4 boards have no
\* solution)
C6_Witness ==
    pc = "AwaitingInput" /\ n = 4 /\ Lit(board) /\ shown # Unbound

\* C7 as stated: a reply of exactly n * n characters whose "#" positions turn
\* the presented board all off yields the success payload.
C7_RawReplyAccepted ==
    [][(/\ pc = "Verifying"
        /\ ~DecodeRaises(received)
        /\ Len(decode(received)) = n * n
        /\ check_solution(board, HashBits(decode(received)), n)) =>
            pc' = "Success"]_vars

\* C7: the reply is stripped of leading and trailing whitespace first; every
\* character left is one bit, "#" 1 and any other character 0, and a stripped
\* reply of exactly n * n characters whose "#" positions turn the presented
\* board all off yields the success payload.
C7_StrippedReplyAccepted ==
    [][(/\ pc = "Verifying"
        /\ ~DecodeRaises(strip(received))
        /\ Len(decode(strip(received))) = n * n
        /\ check_solution(board, HashBits(decode(strip(received))), n)) =>
            (/\ pc' = "Success"
             /\ out' = Append(out, "Success")
             /\ user_solution' = HashBits(decode(strip(received))))]_vars

\* accepted replies with a blank, and with a two-byte character, for a 0 bit
C7_Witness ==
    /\ pc = "Success"
    /\ \E k \in 1..Len(user_input) : user_input[k] \in {" ", TwoByteChar}
    /\ Lit(user_solution)

\* C8: the banner is sent once, first; every board is followed by the prompt
\* and then by exactly one of timeout notice, incorrect notice and success
\* payload before the next board; after a notice the session is at the top
\* of the loop, after the success payload it has ended.
C8_ReplyOrdering ==
    /\ (pc = "Start") <=> (out = <<>>)
    /\ \A k \in 1..Len(out) :
        /\ (out[k] = "Banner") <=> (k = 1)
        /\ out[k] = "BoardHeader" =>
                /\ out[k - 1] \in {"Banner", "Timeout", "Incorrect"}
                /\ k + 2 <= Len(out)
                /\ out[k + 1] = "Board"
                /\ out[k + 2] = "Prompt"
        /\ out[k] = "Board" => out[k - 1] = "BoardHeader"
        /\ out[k] = "Prompt" =>
                /\ out[k - 1] = "Board"
                /\ k < Len(out) =>
                        out[k + 1] \in {"Timeout", "Incorrect", "Success"}
        /\ out[k] \in {"Timeout", "Incorrect", "Success"} =>
                out[k - 1] = "Prompt"
        /\ out[k] \in {"Timeout", "Incorrect"} /\ k < Len(out) =>
                out[k + 1] = "BoardHeader"
        /\ out[k] = "Success" => k = Len(out)
    /\ Last(out) \in {"Banner", "Timeout", "Incorrect"} => pc = "AwaitingBoard"
    /\ Last(out) = "Success" => pc = "Success"
    /\ Last(out) = "Prompt" => pc \in {"AwaitingInput", "Verifying", "Crashed"}

\* a timeout, a wrong reply and the success payload in one session
C8_Witness ==
    /\ Len(out) = 9 /\ out[5] \in {"Timeout", "Incorrect"}
    /\ out[9] = "Success"

=============================================================================
